---- MODULE Spec2Model ----
(***************************************************************************)
(* Model of the bounded-buffer panic message writer of const_panic:        *)
(*   src/src/concat_panic_.rs  concat_panic, panic_inner,                  *)
(*                             format_panic_message, make_panic_string,    *)
(*                             write_to_buffer!, write_panicval_to_buffer! *)
(*   src/src/panic_val.rs      PanicVal, PanicVal::__string, IntVal::new   *)
(*                                                                         *)
(* Bytes are the integers 0..255.  `buffer` holds the occupied part        *)
(* buffer[0 .. len) of the Rust array: every write of the code is at index *)
(* `len`, so the bytes at index >= len are still the 0 of `[0u8; LEN]`.    *)
(* An indexing `buffer[len] = b` with len >= capacity is Rust's bounds     *)
(* check failure: the write is attempted, nothing is stored, and the call  *)
(* ends with an index-out-of-bounds panic (flag `oob`).                    *)
(***************************************************************************)
EXTENDS Integers, Sequences, FiniteSets, TLC

(***************************************************************************)
(* Bounds of the model                                                     *)
(***************************************************************************)
\* largest capacity handed to format_panic_message / make_panic_string
MaxCapacity == 6
\* the non-zero padding width of the enumerated descriptors
MaxPad == 3
\* bytes left free by the filler text in front of a concat_panic tail
MaxSlack == 2

(***************************************************************************)
(* Program constants                                                       *)
(***************************************************************************)
MAX_PANIC_MSG_LEN == 32768
FirstCapacity == 1024
SecondCapacity == 1024 * 6
IntBufLen == 40
Space == 32
Quote == 34
Backslash == 92
LetterX == 120
Digit0 == 48
Minus == 45

\* the capacities of the three panic_inner instantiations of concat_panic
Capacities == <<FirstCapacity, SecondCapacity, MAX_PANIC_MSG_LEN>>

(***************************************************************************)
(* utils::WasTruncated, utils::min_usize                                   *)
(***************************************************************************)
WasTruncatedNo == [tag |-> "No", n |-> 0]
WasTruncatedYes(x) == [tag |-> "Yes", n |-> x]

get_length(was_truncated, string) ==
    IF was_truncated.tag = "Yes" THEN was_truncated.n ELSE Len(string)

min_usize(l, r) == IF l < r THEN l ELSE r

(***************************************************************************)
(* debug_str_fmt: the escaping classification                              *)
(***************************************************************************)
is_backslash_escaped(c) == c \in {9, 10, 13, 34, 92, 0}

is_escaped(c) == c < 32 \/ c >= 127 \/ is_backslash_escaped(c)

get_backslash_escape(c) ==
    CASE c = 9 -> 116
      [] c = 10 -> 110
      [] c = 13 -> 114
      [] c = 0 -> 48
      [] OTHER -> c

\* the letter case of the hex digits is not fixed by the format: upper case
hex_as_ascii(n) == IF n < 10 THEN 48 + n ELSE 55 + n

\* output bytes one source byte occupies in Quoted mode
byte_len(c) ==
    IF is_escaped(c) THEN (IF is_backslash_escaped(c) THEN 2 ELSE 4) ELSE 1

(***************************************************************************)
(* utils::truncated_str_len, utils::truncated_debug_str_len                *)
(***************************************************************************)
\* a byte that does not continue a multi-byte UTF-8 character
is_char_boundary(b) == b < 128 \/ b >= 192

RECURSIVE char_boundary_before(_, _)
\* the cut point moved back to the start of the character it falls into
char_boundary_before(bytes, i) ==
    IF i = 0 \/ is_char_boundary(bytes[i + 1])
    THEN i
    ELSE char_boundary_before(bytes, i - 1)

\* Display mode: everything if it fits, else the first truncate_to bytes,
\* never splitting a multi-byte character of the text
truncated_str_len(bytes, truncate_to) ==
    IF Len(bytes) <= truncate_to
    THEN WasTruncatedNo
    ELSE WasTruncatedYes(char_boundary_before(bytes, truncate_to))

RECURSIVE debug_walk(_, _, _, _)
debug_walk(bytes, truncate_to, i, fmtlen) ==
    IF i >= Len(bytes)
    THEN WasTruncatedNo
    ELSE LET w == fmtlen + byte_len(bytes[i + 1])
         IN IF w > truncate_to
            THEN WasTruncatedYes(i)
            ELSE debug_walk(bytes, truncate_to, i + 1, w)

\* the walk starts at 2: the two quote characters
truncated_debug_str_len(bytes, truncate_to) ==
    debug_walk(bytes, truncate_to, 0, 2)

(***************************************************************************)
(* IntVal::new, IntVal::from_u128, IntVal::from_i128                       *)
(***************************************************************************)
\* A u128, and the two's complement bit pattern of an i128, is kept at its
\* width as NumLimbs limbs of 16 bits, the least significant limb first.
LimbBase == 65536
NumLimbs == 8

\* the u128 of a natural number below 2^31
u128_of(n) ==
    [i \in 1..NumLimbs |->
        IF i = 1 THEN n % LimbBase
        ELSE IF i = 2 THEN n \div LimbBase
        ELSE 0]

\* `n == 0`
u128_is_zero(n) == \A i \in 1..NumLimbs : n[i] = 0

RECURSIVE u128_divmod(_, _, _, _)
\* `n / d` and `n % d` for a small d: long division from limb i downwards
u128_divmod(n, d, i, rem) ==
    IF i = 0
    THEN [quot |-> n, rem |-> rem]
    ELSE LET cur == rem * LimbBase + n[i]
         IN u128_divmod([n EXCEPT ![i] = cur \div d], d, i - 1, cur % d)

RECURSIVE u128_wrapping_add(_, _, _)
\* n + c * LimbBase^(i-1), the carry out of the top limb dropped
u128_wrapping_add(n, c, i) ==
    IF i > NumLimbs \/ c = 0
    THEN n
    ELSE LET cur == n[i] + c
         IN u128_wrapping_add([n EXCEPT ![i] = cur % LimbBase],
                              cur \div LimbBase, i + 1)

\* two's complement negation: !n + 1
u128_wrapping_neg(n) ==
    u128_wrapping_add([i \in 1..NumLimbs |-> LimbBase - 1 - n[i]], 1, 1)

\* `n < 0` for an i128: its top bit
i128_is_negative(n) == n[NumLimbs] >= LimbBase \div 2

\* i128::unsigned_abs
i128_unsigned_abs(n) == IF i128_is_negative(n) THEN u128_wrapping_neg(n) ELSE n

\* the i128 of an integer of magnitude below 2^31
i128_of(n) == IF n >= 0 THEN u128_of(n) ELSE u128_wrapping_neg(u128_of(0 - n))

RECURSIVE IntVal_digits(_, _, _)
\* the `loop` of IntVal::new: least significant digit first, into the tail
IntVal_digits(n, start, buf) ==
    LET start1 == start - 1
        dm == u128_divmod(n, 10, NumLimbs, 0)
        digit == dm.rem
        buf1 == [buf EXCEPT ![start1 + 1] = Digit0 + digit]
        n1 == dm.quot
    IN IF u128_is_zero(n1)
       THEN [start |-> start1, buffer |-> buf1]
       ELSE IntVal_digits(n1, start1, buf1)

IntVal_new_sign_over_digit(sign, n) ==
    LET d == IntVal_digits(n, IntBufLen, [i \in 1..IntBufLen |-> 0])
    IN IF sign = "Negative"
       THEN [start |-> d.start,
             buffer |-> [d.buffer EXCEPT ![d.start + 1] = Minus]]
       ELSE d

\* IntVal::new
IntVal_new(sign, n) ==
    LET d == IntVal_digits(n, IntBufLen, [i \in 1..IntBufLen |-> 0])
    IN IF sign = "Negative"
       THEN [start |-> d.start - 1,
             buffer |-> [d.buffer EXCEPT ![d.start] = Minus]]
       ELSE d

IntVal_from_u128(n) == IntVal_new("Positive", n)

IntVal_from_i128(n) ==
    IntVal_new(IF i128_is_negative(n) THEN "Negative" ELSE "Positive",
               i128_unsigned_abs(n))

\* ShortArrayVec::get: the occupied tail buffer[start .. 40)
IntVal_get(int) == SubSeq(int.buffer, int.start + 1, IntBufLen)

(***************************************************************************)
(* PanicVal and PanicVariant                                               *)
(***************************************************************************)
PanicVal(var, string, slice, leftpad, rightpad, fmt_kind) ==
    [var |-> var, string |-> string, slice |-> slice,
     leftpad |-> leftpad, rightpad |-> rightpad, fmt_kind |-> fmt_kind]

\* mutant: the budget of the content forgets `truncate_to -= leftpad`
__string_keeps_budget(self, truncate_to0) ==
    LET leftpad == self.leftpad
    IN IF leftpad > truncate_to0
       THEN [lpad |-> leftpad - truncate_to0, rpad |-> 0, string |-> <<>>,
             fmt_kind |-> "Display", was_truncated |-> WasTruncatedYes(0)]
       ELSE
         LET string == self.string
             fmt_kind == IF self.var = "Int" THEN "Display" ELSE self.fmt_kind
             was_trunc ==
                 IF self.var = "Int"
                 THEN (IF Len(string) <= truncate_to0
                       THEN WasTruncatedNo
                       ELSE WasTruncatedYes(0))
                 ELSE IF self.fmt_kind = "Display"
                      THEN truncated_str_len(string, truncate_to0)
                      ELSE truncated_debug_str_len(string, truncate_to0)
             truncate_to2 == truncate_to0 - get_length(was_trunc, string)
             rightpad == min_usize(self.rightpad, truncate_to2)
         IN [lpad |-> leftpad, rpad |-> rightpad, string |-> string,
             fmt_kind |-> fmt_kind, was_truncated |-> was_trunc]

\* mutant: an integer is cut like a Display text
__string_int_like_text(self, truncate_to0) ==
    LET leftpad == self.leftpad
    IN IF leftpad > truncate_to0
       THEN [lpad |-> leftpad - truncate_to0, rpad |-> 0, string |-> <<>>,
             fmt_kind |-> "Display", was_truncated |-> WasTruncatedYes(0)]
       ELSE
         LET truncate_to1 == truncate_to0 - leftpad
             string == self.string
             fmt_kind == IF self.var = "Int" THEN "Display" ELSE self.fmt_kind
             was_trunc ==
                 IF self.var = "Int" \/ self.fmt_kind = "Display"
                 THEN truncated_str_len(string, truncate_to1)
                 ELSE truncated_debug_str_len(string, truncate_to1)
             truncate_to2 == truncate_to1 - get_length(was_trunc, string)
             rightpad == min_usize(self.rightpad, truncate_to2)
         IN [lpad |-> leftpad, rpad |-> rightpad, string |-> string,
             fmt_kind |-> fmt_kind, was_truncated |-> was_trunc]

__string_int_keeps_fmt_kind(self, truncate_to0) ==
    LET leftpad == self.leftpad
    IN IF leftpad > truncate_to0
       THEN [lpad |-> leftpad - truncate_to0, rpad |-> 0, string |-> <<>>,
             fmt_kind |-> "Display", was_truncated |-> WasTruncatedYes(0)]
       ELSE
         LET truncate_to1 == truncate_to0 - leftpad
             string == self.string
             fmt_kind == self.fmt_kind
             was_trunc ==
                 IF self.var = "Int"
                 THEN (IF Len(string) <= truncate_to1
                       THEN WasTruncatedNo
                       ELSE WasTruncatedYes(0))
                 ELSE IF self.fmt_kind = "Display"
                      THEN truncated_str_len(string, truncate_to1)
                      ELSE truncated_debug_str_len(string, truncate_to1)
             truncate_to2 == truncate_to1 - get_length(was_trunc, string)
             rightpad == min_usize(self.rightpad, truncate_to2)
         IN [lpad |-> leftpad, rpad |-> rightpad, string |-> string,
             fmt_kind |-> fmt_kind, was_truncated |-> was_trunc]

\* PanicVal::__string
__string(self, truncate_to0) ==
    LET leftpad == self.leftpad
    IN IF leftpad > truncate_to0
       THEN [lpad |-> leftpad - truncate_to0, rpad |-> 0, string |-> <<>>,
             fmt_kind |-> "Display", was_truncated |-> WasTruncatedYes(0)]
       ELSE
         LET truncate_to1 == truncate_to0 - leftpad
             string == self.string
             fmt_kind == IF self.var = "Int" THEN "Display" ELSE self.fmt_kind
             was_trunc ==
                 IF self.var = "Int"
                 THEN (IF Len(string) <= truncate_to1
                       THEN WasTruncatedNo
                       ELSE WasTruncatedYes(0))
                 ELSE IF self.fmt_kind = "Display"
                      THEN truncated_str_len(string, truncate_to1)
                      ELSE truncated_debug_str_len(string, truncate_to1)
             truncate_to2 == truncate_to1 - get_length(was_trunc, string)
             rightpad == min_usize(self.rightpad, truncate_to2)
         IN [lpad |-> leftpad, rpad |-> rightpad, string |-> string,
             fmt_kind |-> fmt_kind, was_truncated |-> was_trunc]

(***************************************************************************)
(* __write_array!, __write_array_checked!                                  *)
(***************************************************************************)
\* consecutive `__write_array!{buffer, len, b}` for the bytes of `bs`:
\* each stores at index len and advances len; the first one that finds
\* len = capacity fails Rust's bounds check and nothing later runs
__write_array(st, capacity_, bs) ==
    LET room == capacity_ - st.len
    IN IF st.oob \/ bs = <<>>
       THEN st
       ELSE IF Len(bs) <= room
            THEN [buffer |-> st.buffer \o bs, len |-> st.len + Len(bs),
                  oob |-> FALSE]
            ELSE [buffer |-> st.buffer \o SubSeq(bs, 1, room),
                  len |-> st.len + room, oob |-> TRUE]

\* `if array.len() > len { array[len] = b; len += 1 }`
__write_array_checked(st, capacity_, b) ==
    IF st.oob
    THEN st
    ELSE IF capacity_ > st.len
         THEN [buffer |-> Append(st.buffer, b), len |-> st.len + 1,
               oob |-> FALSE]
         ELSE st

Spaces(n) == [i \in 1..n |-> Space]

\* mutant: the hex escape writes the low nibble first
escape_byte_low_nibble_first(c) ==
    IF is_escaped(c)
    THEN IF is_backslash_escaped(c)
         THEN <<Backslash, get_backslash_escape(c)>>
         ELSE <<Backslash, LetterX, hex_as_ascii(c % 16),
                hex_as_ascii(c \div 16)>>
    ELSE <<c>>

\* the body of the Quoted loop: the bytes written for one content byte in Quoted mode
escape_byte(c) ==
    IF is_escaped(c)
    THEN IF is_backslash_escaped(c)
         THEN <<Backslash, get_backslash_escape(c)>>
         ELSE <<Backslash, LetterX, hex_as_ascii(c \div 16),
                hex_as_ascii(c % 16)>>
    ELSE <<c>>

RECURSIVE escaped(_, _, _)
\* `while i < trunc_len`: the bytes the Quoted loop writes for string[i ..]
escaped(string, i, trunc_len) ==
    IF i >= trunc_len
    THEN <<>>
    ELSE escape_byte(string[i + 1]) \o escaped(string, i + 1, trunc_len)

(***************************************************************************)
(* write_panicval_to_buffer!                                               *)
(***************************************************************************)
\* mutant: the pad loop stops one space early
write_pad_one_short(st, capacity_, pad) ==
    __write_array(st, capacity_, Spaces(IF pad > 0 THEN pad - 1 ELSE 0))

\* `while lpad != 0 { __write_array!{buffer, len, b' '} lpad -= 1; }`,
\* and the same loop over rpad
write_pad(st, capacity_, pad) == __write_array(st, capacity_, Spaces(pad))

\* `else if rem_space != 0`: whether the Quoted branch runs
is_quoted(fmt_kind, rem_space) == fmt_kind # "Display" /\ rem_space # 0

\* mutant: the Display loop starts at i = 1
write_display_from_one(st, capacity_, string, trunc_len) ==
    __write_array(st, capacity_, SubSeq(string, 2, trunc_len))

\* the Display branch: string[0 .. trunc_len) verbatim
write_display(st, capacity_, string, trunc_len) ==
    __write_array(st, capacity_, SubSeq(string, 1, trunc_len))

\* the Quoted branch up to the end of the content loop
write_quoted(st, capacity_, string, trunc_len) ==
    __write_array(__write_array(st, capacity_, <<Quote>>), capacity_,
                  escaped(string, 0, trunc_len))

\* `if let WasTruncated::No = was_truncated { __write_array_checked!{..} }`
write_closing_quote(st, capacity_, was_truncated) ==
    IF was_truncated.tag = "No"
    THEN __write_array_checked(st, capacity_, Quote)
    ELSE st

\* mutant: the final attempt signals the overflow too
on_truncated_always_err(was_truncated, capacity_, max_capacity_) ==
    IF was_truncated.tag = "Yes" THEN "return_err" ELSE "next"

\* `if let WasTruncated::Yes(_) = was_truncated { ... }`
on_truncated(was_truncated, capacity_, max_capacity_) ==
    IF was_truncated.tag = "Yes"
    THEN (IF capacity_ < max_capacity_ THEN "return_err" ELSE "break_outer")
    ELSE "next"

write_panicval_to_buffer(buffer0, len0, capacity_, max_capacity_, arg) ==
    LET rem_space == capacity_ - len0
        r == __string(arg, rem_space)
        was_truncated == r.was_truncated
        trunc_len == get_length(was_truncated, r.string)
        s0 == [buffer |-> buffer0, len |-> len0, oob |-> FALSE]
        s1 == write_pad(s0, capacity_, r.lpad)
        quoted == is_quoted(r.fmt_kind, rem_space)
        \* the opening quote alone, to record where the content starts
        s2 == IF quoted THEN write_quoted(s1, capacity_, <<>>, 0) ELSE s1
        s3 == IF r.fmt_kind = "Display"
              THEN write_display(s1, capacity_, r.string, trunc_len)
              ELSE IF quoted
                   THEN write_quoted(s1, capacity_, r.string, trunc_len)
                   ELSE s1
        s4 == IF quoted
              THEN write_closing_quote(s3, capacity_, was_truncated)
              ELSE s3
        s5 == write_pad(s4, capacity_, r.rpad)
        exit == IF s5.oob
                THEN "index_panic"
                ELSE on_truncated(was_truncated, capacity_, max_capacity_)
    IN [buffer |-> s5.buffer, len |-> s5.len, exit |-> exit,
        arg |-> arg, rem_space |-> rem_space, start |-> len0,
        was_truncated |-> was_truncated, trunc_len |-> trunc_len,
        fmt_kind |-> r.fmt_kind, lpad |-> r.lpad, rpad |-> r.rpad,
        quoted |-> quoted,
        lpad_end |-> s1.len, open_end |-> s2.len, content_end |-> s3.len,
        close_end |-> s4.len,
        \* an indexed write before the right-pad loop was out of bounds
        aborted |-> s4.oob]

(***************************************************************************)
(* The descriptor forests and the calls explored                           *)
(***************************************************************************)
Str(string, leftpad, rightpad, fmt_kind) ==
    PanicVal("Str", string, <<>>, leftpad, rightpad, fmt_kind)

ShortStr(string, leftpad, rightpad, fmt_kind) ==
    PanicVal("ShortString", string, <<>>, leftpad, rightpad, fmt_kind)

IntDesc(n, leftpad, rightpad, fmt_kind) ==
    PanicVal("Int", IntVal_get(IntVal_from_i128(i128_of(n))), <<>>,
             leftpad, rightpad, fmt_kind)

\* PanicVariant::Slice: the chunks its iterator yields, one per next()
Slice(chunks, leftpad, rightpad, fmt_kind) ==
    PanicVal("Slice", <<>>, chunks, leftpad, rightpad, fmt_kind)

\* PanicVal::write_str, PanicVal::EMPTY
write_str(string) == Str(string, 0, 0, "Display")
EMPTY == write_str(<<>>)

FmtKinds == {"Display", "Debug"}
Pads == {0, 1, MaxPad}

\* "", "a", "a\n", "\x01", and the two-byte character U+00E9
Strings == {<<>>, <<97>>, <<97, 10>>, <<1>>, <<195, 169>>}

\* "\nfoo\"\r" of concat_panic_args_test
TestString == <<10, 102, 111, 111, 34, 13>>
\* every shorthand escape, hex escapes on both sides of the range, plain bytes
AllKinds == <<10, 9, 13, 92, 34, 0, 1, 31, 127, 200, 255, 32, 126, 97>>
\* "\nthe error was ", " and ", "\nHello\tworld" of the concat_panic example
TheErrorWas ==
    <<10, 116, 104, 101, 32, 101, 114, 114, 111, 114, 32, 119, 97, 115, 32>>
And == <<32, 97, 110, 100, 32>>
HelloWorld == <<10, 72, 101, 108, 108, 111, 9, 119, 111, 114, 108, 100>>

Leaves ==
    {Str(s, l, r, f) : s \in Strings, l \in Pads, r \in Pads, f \in FmtKinds}
    \cup {IntDesc(n, 0, r, f) : n \in {7, -10}, r \in Pads, f \in FmtKinds}
    \cup {IntDesc(7, MaxPad, 0, "Display"),
          ShortStr(<<44, 10>>, 0, MaxPad, "Display"),
          ShortStr(<<44, 32>>, 0, 0, "Debug")}

A == write_str(<<97>>)

SliceForests ==
    { << <<Slice(<< <<x, A>>, <<y, EMPTY>> >>, MaxPad, MaxPad, "Debug"), A>>,
         <<A>> >> :
        x \in {Str(<<97>>, 0, 0, "Debug"), Str(<<97, 10>>, 0, MaxPad, "Debug"),
               IntDesc(7, MaxPad, 0, "Display")},
        y \in {Str(<<1>>, 0, 0, "Debug"), write_str(<<97, 97>>)} }
    \cup { << <<Slice(<< <<EMPTY, EMPTY>> >>, MaxPad, MaxPad, "Debug")>> >> }

SmallForests ==
    {<<>>, << <<>>, <<A>> >>}
    \cup { << <<x>> >> : x \in Leaves }
    \cup { << <<x, A>> >> : x \in Leaves }
    \cup { << <<x>>, <<A>> >> : x \in Leaves }
    \cup { << <<A, x>> >> : x \in Leaves }
    \cup SliceForests

\* a Display text of n bytes
Filler(n) == write_str([i \in 1..n |-> 97])

Tails ==
    { << <<x>>, <<A>> >> :
        x \in {Str(<<97, 10>>, 0, MaxPad, "Debug"),
               Str(<<97>>, MaxPad, 0, "Display"),
               Str(<<>>, 0, 0, "Debug"),
               Str(<<97, 97, 97>>, 0, MaxPad, "Display"),
               IntDesc(-10, 0, 0, "Debug"),
               IntDesc(-10, 0, MaxPad, "Display")} }
    \cup { << <<Slice(<< <<Str(<<1>>, 0, 0, "Debug"), A>> >>, 0, 0, "Display"),
                A>> >>,
           << <<Str(<<97>>, 0, MaxPad, "Display")>> >> }

AmpleForests ==
    { << <<write_str(TheErrorWas), IntDesc(100, 0, 0, "Display"), write_str(And),
           Str(HelloWorld, 0, 0, "Debug")>> >>,
      << <<Str(TestString, 0, 0, "Debug")>>, <<write_str(TestString)>> >>,
      << <<Str(AllKinds, MaxPad, MaxPad, "Debug")>>,
         <<Str(AllKinds, MaxPad, MaxPad, "Display")>> >>,
      << <<A, Slice(<< <<Str(<<97, 10>>, 1, MaxPad, "Debug"), A>>,
                       <<IntDesc(7, MaxPad, 0, "Display"), EMPTY>> >>,
                    MaxPad, MaxPad, "Debug"), A>> >> }

ConcatForests ==
    AmpleForests
    \cup { << <<Filler(Capacities[k] - slack)>> >> \o t :
             k \in 1..3, slack \in 0..MaxSlack, t \in Tails }

Calls ==
    UNION { { [entry |-> "format_panic_message", forest |-> f,
                capacity |-> c, max_capacity |-> m] :
                 f \in SmallForests, m \in {0, c, MaxCapacity + 1} } :
            c \in 0..MaxCapacity }
    \cup { [entry |-> "make_panic_string", forest |-> f,
            capacity |-> c, max_capacity |-> c + 1] :
             f \in SmallForests \cup AmpleForests, c \in 0..MaxCapacity }
    \cup { [entry |-> "concat_panic", forest |-> f,
            capacity |-> FirstCapacity, max_capacity |-> MAX_PANIC_MSG_LEN] :
             f \in ConcatForests }

(***************************************************************************)
(* State                                                                   *)
(***************************************************************************)
VARIABLES
    entry,          \* the function called
    forest,         \* its `args: &[&[PanicVal]]`
    capacity,       \* `$capacity` of the running attempt
    max_capacity,   \* `$max_capacity` of the running attempt
    attempt,        \* which panic_inner call of concat_panic runs (1..3)
    pc,             \* position in the running call
    args,           \* write_to_buffer!: `args`, the groups still to write
    outer,          \* write_to_buffer!: `outer`, rest of the current group
    iter,           \* write_to_buffer!: `iter`, rest of the current slice
    two_args,       \* write_to_buffer!: `two_args`, rest of the current chunk
    buffer,         \* the occupied part of `buffer`
    len,            \* the write cursor `len`
    last,           \* the last expansion of write_panicval_to_buffer!
    nwritten,       \* how many expansions of it ran in this attempt
    outcome,        \* how the call ended
    message,        \* the text handed over at the end
    history,        \* the attempts run so far: capacity, result, bytes written
    int_arg,        \* a call of IntVal::from_u128 / from_i128: which, and `n`
    int_val         \* the IntVal it returned

vars == <<entry, forest, capacity, max_capacity, attempt, pc, args, outer,
          iter, two_args, buffer, len, last, nwritten, outcome, message,
          history, int_arg, int_val>>

call_vars == <<entry, forest, int_arg, int_val>>

\* no IntVal constructor is being called
NoIntCall == [fn |-> "none", n |-> u128_of(0)]
NoIntVal == [start |-> IntBufLen, buffer |-> <<>>]

\* no expansion of write_panicval_to_buffer! has run in this attempt
NoLast ==
    [buffer |-> <<>>, len |-> 0, exit |-> "none", arg |-> EMPTY,
     rem_space |-> 0, start |-> 0, was_truncated |-> WasTruncatedNo,
     trunc_len |-> 0, fmt_kind |-> "Display", lpad |-> 0, rpad |-> 0,
     quoted |-> FALSE, lpad_end |-> 0, open_end |-> 0, content_end |-> 0,
     close_end |-> 0, aborted |-> FALSE]

Init ==
    \E call \in Calls :
        /\ entry = call.entry
        /\ forest = call.forest
        /\ capacity = call.capacity
        /\ max_capacity = call.max_capacity
        /\ attempt = 1
        /\ pc = "call"
        /\ args = <<>>
        /\ outer = <<>>
        /\ iter = <<>>
        /\ two_args = <<>>
        /\ buffer = <<>>
        /\ len = 0
        /\ last = NoLast
        /\ nwritten = 0
        /\ outcome = "running"
        /\ message = <<>>
        /\ history = <<>>
        /\ int_arg = NoIntCall
        /\ int_val = NoIntVal

(***************************************************************************)
(* panic_inner / format_panic_message / make_panic_string: entry           *)
(***************************************************************************)
\* `let mut buffer = [0u8; LEN]; let mut len = 0usize; let mut args = $args;`
Begin ==
    /\ pc = "call"
    /\ buffer' = <<>>
    /\ len' = 0
    /\ args' = forest
    /\ outer' = <<>>
    /\ iter' = <<>>
    /\ two_args' = <<>>
    /\ last' = NoLast
    /\ nwritten' = 0
    /\ pc' = "outer"
    /\ UNCHANGED <<call_vars, capacity, max_capacity, attempt, outcome,
                   message, history>>

(***************************************************************************)
(* write_to_buffer!                                                        *)
(***************************************************************************)
\* `'outer: while let [mut outer, ref nargs @ ..] = args`: a group is left
OuterNext ==
    /\ pc = "outer"
    /\ args # <<>>
    /\ outer' = Head(args)
    /\ pc' = "inner"
    /\ UNCHANGED <<call_vars, capacity, max_capacity, attempt, args, iter,
                   two_args, buffer, len, last, nwritten, outcome, message,
                   history>>

\* the 'outer loop ends: no group is left
OuterEnd ==
    /\ pc = "outer"
    /\ args = <<>>
    /\ pc' = "written"
    /\ UNCHANGED <<call_vars, capacity, max_capacity, attempt, args, outer,
                   iter, two_args, buffer, len, last, nwritten, outcome,
                   message, history>>

\* what follows one expansion of write_panicval_to_buffer!
AfterWrite(w) ==
    /\ buffer' = w.buffer
    /\ len' = w.len
    /\ last' = w
    /\ nwritten' = nwritten + 1
    /\ pc' = CASE w.exit = "return_err" -> "err"
               [] w.exit = "break_outer" -> "written"
               [] w.exit = "index_panic" -> "done"
               [] OTHER -> pc
    /\ outcome' = IF w.exit = "index_panic" THEN "index_panic" ELSE outcome
    /\ history' = IF w.exit = "index_panic"
                  THEN Append(history, [capacity |-> capacity,
                                        written |-> w.buffer,
                                        result |-> "index_panic"])
                  ELSE history

\* `_ => write_panicval_to_buffer!{..., arg}` then `outer = nouter`
InnerLeaf ==
    /\ pc = "inner"
    /\ outer # <<>>
    /\ Head(outer).var # "Slice"
    /\ LET w == write_panicval_to_buffer(buffer, len, capacity, max_capacity,
                                         Head(outer))
       IN /\ AfterWrite(w)
          /\ outer' = IF w.exit = "next" THEN Tail(outer) ELSE outer
    /\ UNCHANGED <<call_vars, capacity, max_capacity, attempt, args, iter,
                   two_args, message>>

InnerSlice_pads_wrapper ==
    /\ pc = "inner"
    /\ outer # <<>>
    /\ Head(outer).var = "Slice"
    /\ iter' = Head(outer).slice
    /\ pc' = "iter"
    /\ LET st == write_pad([buffer |-> buffer, len |-> len, oob |-> FALSE],
                           capacity, Head(outer).leftpad)
       IN /\ buffer' = st.buffer
          /\ len' = st.len
    /\ UNCHANGED <<call_vars, capacity, max_capacity, attempt, args, outer,
                   two_args, last, nwritten, outcome, message, history>>

\* `PanicVariant::Slice(slice) => { let mut iter = slice.iter();`
InnerSlice ==
    /\ pc = "inner"
    /\ outer # <<>>
    /\ Head(outer).var = "Slice"
    /\ iter' = Head(outer).slice
    /\ pc' = "iter"
    /\ UNCHANGED <<call_vars, capacity, max_capacity, attempt, args, outer,
                   two_args, buffer, len, last, nwritten, outcome, message,
                   history>>

\* the inner while ends: `args = nargs`
InnerEnd ==
    /\ pc = "inner"
    /\ outer = <<>>
    /\ args' = Tail(args)
    /\ pc' = "outer"
    /\ UNCHANGED <<call_vars, capacity, max_capacity, attempt, outer, iter,
                   two_args, buffer, len, last, nwritten, outcome, message,
                   history>>

\* `let (two_args, niter) = iter.next();`
IterNext ==
    /\ pc = "iter"
    /\ two_args' = Head(iter)
    /\ pc' = "two"
    /\ UNCHANGED <<call_vars, capacity, max_capacity, attempt, args, outer,
                   iter, buffer, len, last, nwritten, outcome, message,
                   history>>

\* `while let [arg, ntwo_args @ ..] = two_args { write...; two_args = ntwo_args }`
TwoLeaf ==
    /\ pc = "two"
    /\ two_args # <<>>
    /\ LET w == write_panicval_to_buffer(buffer, len, capacity, max_capacity,
                                         Head(two_args))
       IN /\ AfterWrite(w)
          /\ two_args' = IF w.exit = "next" THEN Tail(two_args) ELSE two_args
    /\ UNCHANGED <<call_vars, capacity, max_capacity, attempt, args, outer,
                   iter, message>>

\* `match niter { Some(x) => iter = x, None => break 'iter }`, and after the
\* 'iter loop `outer = nouter`
TwoEnd ==
    /\ pc = "two"
    /\ two_args = <<>>
    /\ IF Tail(iter) # <<>>
       THEN /\ iter' = Tail(iter)
            /\ pc' = "iter"
            /\ outer' = outer
       ELSE /\ iter' = <<>>
            /\ pc' = "inner"
            /\ outer' = Tail(outer)
    /\ UNCHANGED <<call_vars, capacity, max_capacity, attempt, args,
                   two_args, buffer, len, last, nwritten, outcome, message,
                   history>>

(***************************************************************************)
(* the end of a call                                                       *)
(***************************************************************************)
Zeros(n) == [i \in 1..n |-> 0]

\* write_to_buffer! ran to its end or left by `break 'outer`:
\*   panic_inner           panic!("{}", from_utf8_unchecked(&buffer))
\*   format_panic_message  Ok(TestString { buffer, len })
\*   make_panic_string     Ok(ArrayString { buffer, len })
Written ==
    /\ pc = "written"
    /\ pc' = "done"
    /\ IF entry = "concat_panic"
       THEN /\ outcome' = "panic_message"
            /\ message' = buffer \o Zeros(capacity - len)
       ELSE /\ outcome' = "Ok"
            /\ message' = SubSeq(buffer, 1, len)
    /\ history' = Append(history, [capacity |-> capacity, written |-> buffer,
                                   result |-> "Ok"])
    /\ UNCHANGED <<call_vars, capacity, max_capacity, attempt, args, outer,
                   iter, two_args, buffer, len, last, nwritten>>

\* `return Err(NotEnoughSpace)`:
\*   concat_panic  `if let Err(_) = panic_inner::<N>(args) {}` goes on to the
\*                 next panic_inner; after the third, the `unreachable` panic
\*   the others    hand the Err to their caller
ReturnedErr ==
    /\ pc = "err"
    /\ history' = Append(history, [capacity |-> capacity, written |-> buffer,
                                   result |-> "Err"])
    /\ IF entry = "concat_panic"
       THEN IF attempt < 3
            THEN /\ attempt' = attempt + 1
                 /\ capacity' = Capacities[attempt + 1]
                 /\ pc' = "call"
                 /\ outcome' = outcome
                 \* the buffer of the attempt that returned is gone
                 /\ buffer' = <<>>
                 /\ len' = 0
                 /\ last' = NoLast
                 /\ nwritten' = 0
            ELSE /\ outcome' = "unreachable"
                 /\ pc' = "done"
                 /\ UNCHANGED <<attempt, capacity, buffer, len, last,
                                nwritten>>
       ELSE /\ outcome' = "Err"
            /\ pc' = "done"
            /\ UNCHANGED <<attempt, capacity, buffer, len, last, nwritten>>
    /\ UNCHANGED <<call_vars, max_capacity, args, outer, iter, two_args,
                   message>>

Next ==
    \/ Begin
    \/ OuterNext
    \/ OuterEnd
    \/ InnerLeaf
    \/ InnerSlice
    \/ InnerEnd
    \/ IterNext
    \/ TwoLeaf
    \/ TwoEnd
    \/ Written
    \/ ReturnedErr

Spec == Init /\ [][Next]_vars

(***************************************************************************)
(* The IntVal constructors on their own                                    *)
(***************************************************************************)
\* limb values of the enumerated arguments: all bits clear, only the top bit
\* set, all bits set
LimbValues == {0, LimbBase \div 2, LimbBase - 1}

SmallInts == {1, 9, 10, 99, 100, 12345}

\* 128-bit arguments: among them 0, u128::MAX (-1 as i128), i128::MIN
U128s ==
    [1..NumLimbs -> LimbValues]
        \cup {u128_of(k) : k \in SmallInts}
        \cup {i128_of(0 - k) : k \in SmallInts}

IntInit ==
    /\ entry = "IntVal"
    /\ forest = <<>>
    /\ capacity = 0
    /\ max_capacity = 0
    /\ attempt = 1
    /\ pc = "done"
    /\ args = <<>>
    /\ outer = <<>>
    /\ iter = <<>>
    /\ two_args = <<>>
    /\ buffer = <<>>
    /\ len = 0
    /\ last = NoLast
    /\ nwritten = 0
    /\ outcome = "running"
    /\ message = <<>>
    /\ history = <<>>
    /\ int_arg \in [fn : {"from_u128", "from_i128"}, n : U128s]
    /\ int_val = NoIntVal

writer_vars == <<entry, forest, capacity, max_capacity, attempt, pc, args,
                 outer, iter, two_args, buffer, len, last, nwritten, outcome,
                 message, history>>

\* IntVal::from_u128(n, f)
FromU128 ==
    /\ int_arg.fn = "from_u128"
    /\ int_val = NoIntVal
    /\ int_val' = IntVal_from_u128(int_arg.n)
    /\ UNCHANGED <<writer_vars, int_arg>>

\* IntVal::from_i128(n, f)
FromI128 ==
    /\ int_arg.fn = "from_i128"
    /\ int_val = NoIntVal
    /\ int_val' = IntVal_from_i128(int_arg.n)
    /\ UNCHANGED <<writer_vars, int_arg>>

IntNext ==
    \/ FromU128
    \/ FromI128

SpecInt == IntInit /\ [][IntNext]_vars

TypeOK ==
    /\ len = Len(buffer)
    /\ pc \in {"call", "outer", "inner", "iter", "two", "written", "err",
               "done"}

(***************************************************************************)
(* Properties                                                              *)
(***************************************************************************)
Final == capacity >= max_capacity
Wrote == last.exit # "none"
Truncated == Wrote /\ last.was_truncated.tag = "Yes"
IndexPanic == Wrote /\ last.exit = "index_panic"

\* C1: while the writer runs the cursor stays within the capacity and no
\* write is made at an index >= capacity (no `buffer[len] = b` with
\* len >= capacity is reached).
C1_NoWritePastCapacity ==
    /\ len <= capacity
    /\ ~IndexPanic

\* C2: an attempt at the final capacity (capacity = max_capacity) never
\* returns NotEnoughSpace, so concat_panic never reaches its `unreachable`
\* panic and what the final attempt produced is at most the final capacity
\* long.
C2_FinalAttemptNeverErr ==
    /\ capacity = max_capacity => pc # "err"
    /\ outcome # "unreachable"
    /\ entry = "concat_panic" /\ attempt = 3 =>
          /\ capacity = MAX_PANIC_MSG_LEN
          /\ len <= MAX_PANIC_MSG_LEN
          /\ Len(message) <= MAX_PANIC_MSG_LEN

\* the final attempt of concat_panic truncated a descriptor and still ended
\* with its buffer as the panic message
C2_Witness ==
    /\ entry = "concat_panic"
    /\ attempt = 3
    /\ Truncated
    /\ outcome = "panic_message"

\* C3: concat_panic runs its attempts in the order 1024, 6144, 32768; a
\* later attempt runs only after every earlier one returned NotEnoughSpace;
\* the first attempt that does not return NotEnoughSpace ends the call with
\* that attempt's buffer as the panic message.
C3_Escalation ==
    entry = "concat_panic" =>
        /\ attempt \in 1..3
        /\ capacity = Capacities[attempt]
        /\ Len(history) \in {attempt - 1, attempt}
        /\ \A i \in 1..Len(history) : history[i].capacity = Capacities[i]
        /\ \A i \in 1..(attempt - 1) : history[i].result = "Err"
        /\ pc = "done" =>
              /\ Len(history) = attempt
              /\ history[attempt].result = "Ok"
              /\ outcome = "panic_message"
              /\ SubSeq(message, 1, len) = buffer

\* C4: below max_capacity a truncated descriptor makes the writer return
\* NotEnoughSpace right after that descriptor, nothing else makes it return
\* NotEnoughSpace, and without a truncated descriptor it returns success.
C4_NonFinalTruncation ==
    capacity < max_capacity =>
        /\ Truncated => pc = "err" \/ (pc = "done" /\ outcome = "Err")
        /\ pc = "err" \/ outcome = "Err" => Truncated
        /\ pc = "done" /\ ~Truncated => outcome \in {"Ok", "panic_message"}

\* C5: at the final capacity the writer stops at the first truncated
\* descriptor: nothing of a later descriptor is written and the buffer is
\* the result, its cursor where the truncated descriptor left it.
C5_FinalTruncationStops ==
    Final /\ Truncated =>
        /\ pc \in {"written", "done"}
        /\ buffer = last.buffer
        /\ len = last.len
        /\ pc = "done" =>
              /\ outcome \in {"Ok", "panic_message"}
              /\ SubSeq(message, 1, len) = buffer

(***************************************************************************)
(* The expected text of a forest, written down from the format itself      *)
(***************************************************************************)
HexDigits == <<48, 49, 50, 51, 52, 53, 54, 55, 56, 57, 65, 66, 67, 68, 69, 70>>

ExpectedEscape(c) ==
    CASE c = 10 -> <<92, 110>>
      [] c = 9 -> <<92, 116>>
      [] c = 13 -> <<92, 114>>
      [] c = 92 -> <<92, 92>>
      [] c = 34 -> <<92, 34>>
      [] c = 0 -> <<92, 48>>
      [] c \notin {0, 9, 10, 13} /\ (c < 32 \/ c >= 127) ->
            <<92, 120, HexDigits[(c \div 16) + 1], HexDigits[(c % 16) + 1]>>
      [] OTHER -> <<c>>

RECURSIVE ExpectedEscapes(_)
ExpectedEscapes(string) ==
    IF string = <<>>
    THEN <<>>
    ELSE ExpectedEscape(Head(string)) \o ExpectedEscapes(Tail(string))

ExpectedContent(pv) ==
    IF pv.var = "Int" \/ pv.fmt_kind = "Display"
    THEN pv.string
    ELSE <<34>> \o ExpectedEscapes(pv.string) \o <<34>>

ExpectedLeaf(pv) ==
    [i \in 1..pv.leftpad |-> 32] \o ExpectedContent(pv)
        \o [i \in 1..pv.rightpad |-> 32]

RECURSIVE ExpectedLeaves(_)
ExpectedLeaves(leaves) ==
    IF leaves = <<>>
    THEN <<>>
    ELSE ExpectedLeaf(Head(leaves)) \o ExpectedLeaves(Tail(leaves))

RECURSIVE ExpectedChunks(_)
ExpectedChunks(chunks) ==
    IF chunks = <<>>
    THEN <<>>
    ELSE ExpectedLeaves(Head(chunks)) \o ExpectedChunks(Tail(chunks))

RECURSIVE ExpectedGroup(_)
ExpectedGroup(group) ==
    IF group = <<>>
    THEN <<>>
    ELSE (IF Head(group).var = "Slice"
          THEN ExpectedChunks(Head(group).slice)
          ELSE ExpectedLeaf(Head(group)))
         \o ExpectedGroup(Tail(group))

RECURSIVE Expected(_)
Expected(groups) ==
    IF groups = <<>>
    THEN <<>>
    ELSE ExpectedGroup(Head(groups)) \o Expected(Tail(groups))

IsPrefix(p, q) == Len(p) <= Len(q) /\ SubSeq(q, 1, Len(p)) = p

\* the concat_panic example and its documented message
\*   \nthe error was 100 and "\nHello\tworld"
DocExample ==
    << <<write_str(TheErrorWas), IntDesc(100, 0, 0, "Display"),
         write_str(And), Str(HelloWorld, 0, 0, "Debug")>> >>
DocMessage ==
    <<10, 116, 104, 101, 32, 101, 114, 114, 111, 114, 32, 119, 97, 115, 32,
      49, 48, 48, 32, 97, 110, 100, 32,
      34, 92, 110, 72, 101, 108, 108, 111, 92, 116, 119, 111, 114, 108, 100,
      34>>

\* C6: when the capacity is at least the full rendered length, the bytes
\* written are the concatenation, group by group and descriptor by
\* descriptor, of left padding, content and right padding; what is written
\* so far is always a prefix of it, and the call ends with all of it.
C6_FullRendering ==
    capacity >= Len(Expected(forest)) =>
        /\ IsPrefix(buffer, Expected(forest))
        /\ pc # "err"
        /\ pc = "done" =>
              /\ outcome \in {"Ok", "panic_message"}
              /\ buffer = Expected(forest)
              /\ forest = DocExample => buffer = DocMessage

\* a call whose capacity sufficed ended after writing a padded Quoted
\* descriptor behind another descriptor
C6_Witness ==
    /\ pc = "done"
    /\ capacity >= Len(Expected(forest))
    /\ nwritten >= 2
    /\ last.quoted
    /\ last.arg.leftpad > 0
    /\ last.arg.rightpad > 0

\* the bytes the last descriptor wrote between two cursor positions
Written_(from, to) == SubSeq(last.buffer, from + 1, to)

IsText(pv) == pv.var \in {"Str", "ShortString"}

\* the remaining capacity holds the whole of the last descriptor
Ample == Wrote /\ last.rem_space >= Len(ExpectedLeaf(last.arg))

\* C7: with ample capacity a Quoted text is written as a quote, each source
\* byte as itself, as backslash + shorthand character, or as backslash, x
\* and two hex digits (high nibble first), then a quote; a Display text is
\* written as its source bytes.
C7_QuotedFormat ==
    Ample /\ IsText(last.arg) =>
        IF last.arg.fmt_kind = "Display"
        THEN Written_(last.lpad_end, last.close_end) = last.arg.string
        ELSE Written_(last.lpad_end, last.close_end)
                = <<34>> \o ExpectedEscapes(last.arg.string) \o <<34>>

\* a Quoted text with every kind of byte was written with ample capacity
C7_Witness ==
    /\ Ample
    /\ last.arg.string = AllKinds
    /\ last.quoted
    /\ last.exit = "next"

RECURSIVE NoSplitEscape(_)
\* bs is a sequence of complete units: a plain byte, backslash + one
\* character, or backslash, x and two hex digits
NoSplitEscape(bs) ==
    IF bs = <<>>
    THEN TRUE
    ELSE IF bs[1] # 92
         THEN NoSplitEscape(Tail(bs))
         ELSE IF Len(bs) < 2
              THEN FALSE
              ELSE IF bs[2] = 120
                   THEN /\ Len(bs) >= 4
                        /\ \E h \in 1..16 : HexDigits[h] = bs[3]
                        /\ \E h \in 1..16 : HexDigits[h] = bs[4]
                        /\ NoSplitEscape(SubSeq(bs, 5, Len(bs)))
                   ELSE NoSplitEscape(SubSeq(bs, 3, Len(bs)))

\* C8: whatever the remaining capacity, the content written for a Quoted
\* descriptor never ends inside an escape sequence.
C8_NoSplitEscape ==
    Wrote /\ last.arg.fmt_kind # "Display" /\ IsText(last.arg) =>
        NoSplitEscape(Written_(last.open_end, last.content_end))

\* a Quoted text was cut in front of an escape although bytes were left
C8_Witness ==
    /\ Truncated
    /\ last.quoted
    /\ last.trunc_len < Len(last.arg.string)
    /\ is_escaped(last.arg.string[last.trunc_len + 1])
    /\ capacity - last.content_end >= 1

OpenedQuote == Wrote /\ last.quoted /\ last.open_end = last.lpad_end + 1
ClosedQuote == last.close_end = last.content_end + 1

C10_DisplayTruncation ==
    Wrote /\ IsText(last.arg) /\ last.arg.fmt_kind = "Display" =>
        LET budget == capacity - last.lpad_end
            n == Len(last.arg.string)
        IN /\ last.content_end - last.lpad_end
                 = (IF n < budget THEN n ELSE budget)
           /\ last.was_truncated.tag = "Yes" <=> n > budget

\* the largest cut point <= budget that does not split a UTF-8 character
CutPoint(string, budget) ==
    CHOOSE i \in 0..budget :
        /\ i = 0 \/ string[i + 1] \notin 128..191
        /\ \A j \in (i + 1)..budget : string[j + 1] \in 128..191

\* C10 as amended: if left_pad fits the remaining capacity, then with
\* budget = remaining capacity - left_pad the descriptor is reported
\* truncated iff len > budget, and the content bytes written are all len
\* bytes if len <= budget and else the first budget bytes, less the bytes of
\* a multi-byte character the cut would split (exactly min(len, budget) for
\* ASCII text); if left_pad exceeds the remaining capacity no content byte
\* is written and the descriptor is reported truncated.
C10_DisplayTruncationAmended ==
    Wrote /\ IsText(last.arg) /\ last.arg.fmt_kind = "Display" =>
        LET string == last.arg.string
            n == Len(string)
            budget == last.rem_space - last.arg.leftpad
            emitted == last.content_end - last.lpad_end
        IN IF last.arg.leftpad <= last.rem_space
           THEN /\ emitted = (IF n <= budget THEN n
                              ELSE CutPoint(string, budget))
                /\ (\A i \in 1..n : string[i] < 128) =>
                      emitted = (IF n < budget THEN n ELSE budget)
                /\ Written_(last.lpad_end, last.content_end)
                      = SubSeq(string, 1, emitted)
                /\ last.was_truncated.tag = "Yes" <=> n > budget
           ELSE /\ emitted = 0
                /\ last.was_truncated.tag = "Yes"

\* a Display text was cut inside its content
C10_Witness ==
    /\ Truncated
    /\ IsText(last.arg)
    /\ last.arg.fmt_kind = "Display"
    /\ last.arg.leftpad > 0
    /\ last.content_end - last.lpad_end > 0
    /\ last.content_end - last.lpad_end < Len(last.arg.string)


IsInt(pv) == pv.var = "Int"

\* C11: an integer that does not fit the capacity left after its left
\* padding is cut like a Display text: the first min(len, budget) bytes of
\* its decimal text are written and it is reported truncated.
C11_IntTruncatedLikeText ==
    Wrote /\ IsInt(last.arg) =>
        LET budget == capacity - last.lpad_end
            n == Len(last.arg.string)
        IN n > budget =>
              /\ last.content_end - last.lpad_end = budget
              /\ last.was_truncated.tag = "Yes"

\* C11 as amended: an integer is written whole or not at all.  If left_pad
\* fits the remaining capacity and the decimal text fits what is left after
\* it, all its bytes are written and it is not reported truncated; in every
\* other case none of its bytes is written and it is reported truncated.
C11_IntAllOrNothing ==
    Wrote /\ IsInt(last.arg) =>
        LET n == Len(last.arg.string)
            emitted == last.content_end - last.lpad_end
        IN IF /\ last.arg.leftpad <= last.rem_space
              /\ n <= last.rem_space - last.arg.leftpad
           THEN /\ emitted = n
                /\ Written_(last.lpad_end, last.content_end) = last.arg.string
                /\ last.was_truncated.tag = "No"
           ELSE /\ emitted = 0
                /\ last.was_truncated.tag = "Yes"

\* an integer of several digits was dropped although bytes were left for
\* some of them
C11_Witness ==
    /\ Truncated
    /\ IsInt(last.arg)
    /\ last.arg.leftpad <= last.rem_space
    /\ last.rem_space - last.arg.leftpad >= 1
    /\ Len(last.arg.string) > last.rem_space - last.arg.leftpad
    /\ last.content_end = last.lpad_end


\* C12: the message an attempt hands over is exactly the occupied bytes
\* buffer[0 .. len): nothing at an index >= len is part of it.
C12_MessageIsOccupiedPart ==
    outcome \in {"panic_message", "Ok"} =>
        /\ Len(message) = len
        /\ message = SubSeq(buffer, 1, len)


\* a leaf written without quotes: a Display text or an integer
IsDisplayLeaf(pv) == IsInt(pv) \/ (IsText(pv) /\ pv.fmt_kind = "Display")

\* every leaf of the forest, inside slices too, is written without quotes
DisplayForest ==
    \A g \in 1..Len(forest) : \A d \in 1..Len(forest[g]) :
        LET pv == forest[g][d]
        IN IF pv.var = "Slice"
           THEN \A c \in 1..Len(pv.slice) : \A l \in 1..Len(pv.slice[c]) :
                    IsDisplayLeaf(pv.slice[c][l])
           ELSE IsDisplayLeaf(pv)

\* C13: for a forest of Display descriptors (texts and integers, padded),
\* the bytes an attempt of concat_panic wrote are a prefix of the bytes
\* every later, larger attempt wrote for the same forest.
C13_CapacityMonotone ==
    entry = "concat_panic" /\ DisplayForest =>
        \A i \in 1..Len(history) : \A j \in 1..Len(history) :
            i < j => IsPrefix(history[i].written, history[j].written)


RECURSIVE ConcatAll(_)
\* the sequences of a sequence, joined in order
ConcatAll(ss) == IF ss = <<>> THEN <<>> ELSE Head(ss) \o ConcatAll(Tail(ss))

\* the descriptors write_to_buffer! hands to write_panicval_to_buffer! for
\* one element of a group: the element itself, or for a Slice the elements
\* of its chunks
LeavesOfDesc(pv) == IF pv.var = "Slice" THEN ConcatAll(pv.slice) ELSE <<pv>>

LeavesOfGroup(g) == ConcatAll([i \in 1..Len(g) |-> LeavesOfDesc(g[i])])

\* all of them for `args`, in the order of the nested loops
LeavesOf(f) == ConcatAll([i \in 1..Len(f) |-> LeavesOfGroup(f[i])])

\* C14: every attempt of a concat_panic call writes each descriptor at most
\* once and ends either completed or with Err(NotEnoughSpace); there are at
\* most three attempts, and the call ends in the panic that carries the
\* message.
C14_AttemptsEnd ==
    entry = "concat_panic" =>
        /\ nwritten <= Len(LeavesOf(forest))
        /\ Len(history) <= 3
        /\ \A i \in 1..Len(history) : history[i].result \in {"Ok", "Err"}
        /\ pc = "done" => outcome = "panic_message"


\* C15: when a descriptor's leftpad exceeds the capacity left before it, the
\* writer writes exactly that many spaces (as many as the capacity left),
\* no content, no quote and no right padding, and reports the descriptor
\* truncated.
C15_LeftPadClipped ==
    Wrote /\ last.arg.leftpad > last.rem_space =>
        /\ ~IndexPanic
        /\ last.lpad_end - last.start = last.rem_space
        /\ last.len = last.lpad_end
        /\ last.was_truncated.tag = "Yes"


\* the writer came to the write of the opening quote: the descriptor goes
\* through the Quoted branch and the left-pad loop before it ran to its end
QuoteAttempted ==
    Wrote /\ last.quoted /\ last.lpad <= capacity - last.start

\* C16: the writer writes the opening quote of a Quoted descriptor only when
\* at least one byte of capacity is left after the descriptor's left
\* padding, also when leftpad equals the capacity left before the
\* descriptor.
C16_OpeningQuoteHasRoom ==
    QuoteAttempted => last.lpad_end < capacity


\* the writer came to the right-pad loop of the descriptor
RightPadReached == Wrote /\ ~last.aborted

\* C17: the number of right-pad spaces written for a descriptor is the
\* smaller of its rightpad and the capacity left after its left padding and
\* its content, the content counted as written: for Quoted text with both
\* quotes and every escape at its expanded width.
C17_RightPadClipped ==
    RightPadReached =>
        /\ ~IndexPanic
        /\ last.len - last.close_end =
               min_usize(last.arg.rightpad, capacity - last.close_end)


\* C18: an integer descriptor is written in Display mode whatever its
\* fmt_kind says: no quote before or after it, and its digits as they are,
\* never escaped.
C18_IntAlwaysDisplay ==
    Wrote /\ IsInt(last.arg) =>
        /\ last.fmt_kind = "Display"
        /\ ~last.quoted
        /\ last.open_end = last.lpad_end
        /\ last.close_end = last.content_end
        /\ Written_(last.lpad_end, last.content_end) =
               SubSeq(last.arg.string, 1, last.content_end - last.lpad_end)

\* an integer whose fmt_kind is Debug has been written in full
C18_Witness ==
    /\ Wrote
    /\ IsInt(last.arg)
    /\ last.arg.fmt_kind = "Debug"
    /\ last.rem_space # 0
    /\ last.was_truncated.tag = "No"
    /\ Written_(last.lpad_end, last.content_end) = last.arg.string


\* the reference arithmetic has one limb more than a u128, so that no
\* decimal text of up to 40 digits overflows it
WideLimbs == NumLimbs + 1
Wide(n) == [i \in 1..WideLimbs |-> IF i <= NumLimbs THEN n[i] ELSE 0]

WideZero == [i \in 1..WideLimbs |-> 0]

RECURSIVE WideMulAdd(_, _, _, _)
\* n * m + c, limb i upwards
WideMulAdd(n, m, c, i) ==
    IF i > WideLimbs
    THEN n
    ELSE LET cur == n[i] * m + c
         IN WideMulAdd([n EXCEPT ![i] = cur % LimbBase], m,
                       cur \div LimbBase, i + 1)

RECURSIVE WideAdd(_, _, _, _)
\* a + b + c, limb i upwards
WideAdd(a, b, c, i) ==
    IF i > WideLimbs
    THEN a
    ELSE LET cur == a[i] + b[i] + c
         IN WideAdd([a EXCEPT ![i] = cur % LimbBase], b,
                    cur \div LimbBase, i + 1)

RECURSIVE DecimalValue(_)
\* the number a text of decimal digits stands for: ten times the number of
\* all but the last digit, plus the last digit (a number that already
\* reaches into the top limb is left as it is: ten times it would not fit)
DecimalValue(digits) ==
    IF digits = <<>>
    THEN WideZero
    ELSE LET n == Len(digits)
             front == DecimalValue(SubSeq(digits, 1, n - 1))
         IN IF front[WideLimbs] # 0
            THEN front
            ELSE WideMulAdd(front, 10, digits[n] - Digit0, 1)

\* 2^128
TwoTo128 == [i \in 1..WideLimbs |-> IF i = WideLimbs THEN 1 ELSE 0]

IntReturned == int_arg.fn # "none" /\ int_val # NoIntVal

\* the argument is a negative number: an i128 with its top bit set
IntArgNegative == int_arg.fn = "from_i128" /\ i128_is_negative(int_arg.n)

\* C19: IntVal::from_u128 and IntVal::from_i128 (both through IntVal::new)
\* return the exact decimal digits of their argument over the whole 128-bit
\* range: `start` stays within 0..39, the text buffer[start..40) has 1 to 40
\* bytes, it begins with '-' exactly for a negative argument, the rest are
\* digits without a needless leading 0, and their value is the argument's
\* magnitude.
C19_ExactDecimal ==
    IntReturned =>
        LET text == IntVal_get(int_val)
            signed == text # <<>> /\ text[1] = Minus
            digits == IF signed THEN Tail(text) ELSE text
            value == DecimalValue(digits)
        IN /\ int_val.start \in 0..(IntBufLen - 1)
           /\ Len(text) \in 1..IntBufLen
           /\ signed <=> IntArgNegative
           /\ digits # <<>>
           /\ \A i \in 1..Len(digits) : digits[i] \in Digit0..(Digit0 + 9)
           /\ Len(digits) > 1 => digits[1] # Digit0
           /\ IF IntArgNegative
              THEN WideAdd(value, Wide(int_arg.n), 0, 1) = TwoTo128
              ELSE value = Wide(int_arg.n)

\* i128::MIN has been converted: 39 digits and the sign fill all 40 bytes
C19_Witness ==
    /\ IntReturned
    /\ int_arg.fn = "from_i128"
    /\ int_arg.n = [i \in 1..NumLimbs |->
                       IF i = NumLimbs THEN LimbBase \div 2 ELSE 0]
    /\ int_val.start = 0
    /\ Len(IntVal_get(int_val)) = IntBufLen


\* C20: a Slice descriptor is written as the descriptors of its chunks, in
\* order, at the place of the Slice: every descriptor handed to the writer
\* (and so to __string) is a leaf, the n-th one written is the n-th leaf of
\* the forest, nothing is written between two leaves, and with room for
\* everything the output is the leaves' renderings one after the other, so
\* that the leftpad, rightpad and fmt_kind of the Slice itself add nothing.
C20_SliceAsLeaves ==
    LET leaves == LeavesOf(forest)
    IN /\ buffer = last.buffer
       /\ nwritten <= Len(leaves)
       /\ Wrote =>
             /\ last.arg.var # "Slice"
             /\ last.arg = leaves[nwritten]
       /\ pc = "done" /\ capacity >= Len(ExpectedLeaves(leaves)) =>
             buffer = ExpectedLeaves(leaves)

\* a forest whose Slice has paddings and fmt_kind Debug of its own
HasPaddedSlice ==
    \E g \in 1..Len(forest) : \E d \in 1..Len(forest[g]) :
        /\ forest[g][d].var = "Slice"
        /\ forest[g][d].leftpad > 0
        /\ forest[g][d].rightpad > 0
        /\ forest[g][d].fmt_kind = "Debug"
        /\ Len(forest[g][d].slice) >= 2

\* such a forest has been written to its end, with room for everything
C20_Witness ==
    /\ HasPaddedSlice
    /\ pc = "done"
    /\ outcome = "panic_message"
    /\ nwritten = Len(LeavesOf(forest))
    /\ nwritten >= 5
    /\ len > nwritten
    /\ buffer = ExpectedLeaves(LeavesOf(forest))


\* the writer ran to its end without returning Err(NotEnoughSpace)
FinishedOk == pc = "done" /\ outcome \in {"Ok", "panic_message"}

\* C21: when the writer finishes without Err(NotEnoughSpace) at a capacity
\* below max_capacity, the bytes written are the complete rendering of the
\* forest: no content, closing quote or padding is missing.
C21_OkIsComplete ==
    FinishedOk /\ capacity < max_capacity => buffer = Expected(forest)

====
